---- MODULE Spec2Model ----
(***************************************************************************)
(* State-machine model of the emergency calling backend:                   *)
(*   src/app.py          the HTTP handlers, the call registry and the      *)
(*                       recording session map                             *)
(*   src/geolocation.py  the geolocation resolver and its file cache       *)
(*                                                                         *)
(* Spec      every handler is one atomic action (one request at a time).   *)
(* SpecConc  emergency_call and get_location run on several threads, split *)
(*           at the statements between which another thread can run.       *)
(***************************************************************************)
EXTENDS Integers, Sequences, FiniteSets, TLC

\* ------------------------------------------------------------------ bounds
\* At most MaxCalls records are appended to the registry.
MaxCalls == 3
\* datetime.now() returns a value in 0..MaxClock; it never goes backwards.
MaxClock == 1
\* Numeric latitudes of the queries are 0..MaxLat grid steps along one meridian.
MaxLat == 2
\* One grid step of latitude is this many metres of great-circle distance.
MetresPerStep == 50
\* At most MaxInserts results are written to the cache file.
MaxInserts == 1
\* Request threads of SpecConc.
NumThreads == 2

\* ------------------------------------------------------- program constants
\* cache = cache[-100:]
CacheMax == 100
\* if distance < 0.1 (kilometres), held here in metres
NearMetres == 100

VARIABLES
    emergency_calls,   \* app.py:13    the in-memory registry, a sequence of caller_info
    call_recordings,   \* app.py:14    recording_id -> session
    logFile,           \* emergency_logs.json: the sequence of lines written
    recFiles,          \* recordings/<id>.json: recording_id -> the object dumped
    cacheFile,         \* location_cache.json: [state, entries]
    clock,             \* the last value datetime.now() returned
    resp,              \* the last response sent, with what the request observed
    nSuccess,          \* history: emergency_call requests answered 200
    nInserted,         \* history: json.dump calls on location_cache.json
    pc,                \* SpecConc: thread -> the statement it is at
    loc                \* SpecConc: thread -> its local variables

vars == <<emergency_calls, call_recordings, logFile, recFiles, cacheFile, clock,
          resp, nSuccess, nInserted, pc, loc>>

Threads == 1..NumThreads

\* ------------------------------------------------------------------ values
\* Python's None, and the absent result of _check_cache, as an empty sequence.
None == <<>>

\* A coordinate of a request body: a number (grid steps) or a JSON value that
\* is no number (a string, null), which math.radians rejects with TypeError.
Num(k) == [kind |-> "num", v |-> k]
NotNum == [kind |-> "str", v |-> 0]
IsNumber(c) == c.kind = "num"

\* datetime.now(): the clock stays or advances, and never passes MaxClock.
Now(t) == t \in {clock} \cup (IF clock < MaxClock THEN {clock + 1} ELSE {})
NowAfter(s, t) == t \in {s} \cup (IF s < MaxClock THEN {s + 1} ELSE {})

\* The JSON bodies of POST /api/emergency-call. A body that is no JSON object
\* (null, an array, no JSON at all) makes data.get raise.
FullBody == [phone |-> "555-0100", name |-> "A. Test", latitude |-> "37.0",
             longitude |-> "-122.0", emergency_type |-> "fire",
             description |-> "smoke"]
PartialBody == [phone |-> "555-0199", is_offline |-> "True", recording_id |-> "rec_0"]
CallBodies == {FullBody, PartialBody}

\* dict.get(key, default)
Get(data, key, default) == IF key \in DOMAIN data THEN data[key] ELSE default

\* app.py:27-38
caller_info(data, t) ==
    [timestamp |-> t,
     phone |-> Get(data, "phone", "None"),
     name |-> Get(data, "name", "None"),
     latitude |-> Get(data, "latitude", "None"),
     longitude |-> Get(data, "longitude", "None"),
     emergency_type |-> Get(data, "emergency_type", "None"),
     description |-> Get(data, "description", "None"),
     location_address |-> Get(data, "location_address", "None"),
     is_offline |-> Get(data, "is_offline", "False"),
     recording_id |-> Get(data, "recording_id", "None")]

\* ------------------------------------------------------------ call registry
\* POST /api/emergency-call. isObject: request.json is a JSON object;
\* logOk: open/write of emergency_logs.json does not raise.
emergency_call(isObject, data, logOk) ==
    /\ Len(emergency_calls) < MaxCalls
    /\ \E t \in {u \in 0..MaxClock : Now(u)} :
        /\ clock' = t
        /\ IF ~isObject
           THEN \* data.get raises: except branch, nothing appended
                /\ resp' = [op |-> "emergency_call", status |-> 400,
                            error |-> "AttributeError"]
                /\ UNCHANGED <<emergency_calls, logFile, nSuccess>>
           ELSE /\ emergency_calls' = Append(emergency_calls, caller_info(data, t))
                /\ IF logOk
                   THEN /\ logFile' = Append(logFile, caller_info(data, t))
                        /\ resp' = [op |-> "emergency_call", status |-> 200,
                                    call_id |-> Len(emergency_calls') - 1]
                        /\ nSuccess' = nSuccess + 1
                   ELSE \* the append of line 40 is not undone
                        /\ resp' = [op |-> "emergency_call", status |-> 400,
                                    error |-> "OSError"]
                        /\ UNCHANGED <<logFile, nSuccess>>
    /\ UNCHANGED <<call_recordings, recFiles, cacheFile, nInserted, pc, loc>>

\* GET /api/calls
get_calls ==
    /\ resp' = [op |-> "get_calls", status |-> 200, calls |-> emergency_calls,
                total |-> Len(emergency_calls)]
    /\ UNCHANGED <<emergency_calls, call_recordings, logFile, recFiles, cacheFile,
                   clock, nSuccess, nInserted, pc, loc>>

\* GET /api/health
health_check ==
    /\ \E t \in {u \in 0..MaxClock : Now(u)} :
        /\ clock' = t
        /\ resp' = [op |-> "health_check", status |-> 200, timestamp |-> t]
    /\ UNCHANGED <<emergency_calls, call_recordings, logFile, recFiles, cacheFile,
                   nSuccess, nInserted, pc, loc>>

\* ------------------------------------------------- recording session manager
\* d[k] = v on a Python dict: the other keys are kept.
SetKey(d, k, v) == [x \in DOMAIN d \cup {k} |-> IF x = k THEN v ELSE d[x]]

\* A recording_id "rec_<timestamp>" is held as its timestamp; -1 is an id of
\* the URL that start_recording never generates.
RecIds == (0..MaxClock) \cup {-1}

\* POST /api/recording/start: now() is read for the id and again for started_at.
start_recording ==
    /\ \E t1 \in {u \in 0..MaxClock : Now(u)} :
       \E t2 \in {u \in 0..MaxClock : NowAfter(t1, u)} :
        /\ clock' = t2
        /\ call_recordings' =
               SetKey(call_recordings, t1, [started_at |-> t2, data |-> <<>>])
        /\ resp' = [op |-> "start_recording", status |-> 200, recording_id |-> t1]
    /\ UNCHANGED <<emergency_calls, logFile, recFiles, cacheFile, nSuccess,
                   nInserted, pc, loc>>

\* duration taken as the time between start and stop, not the length of data.
stopped_session_elapsed(session, t) ==
    SetKey(SetKey(session, "stopped_at", t), "duration", t - session.started_at)

\* app.py:99-100: the session after stopped_at and duration are set.
stopped_session(session, t) ==
    SetKey(SetKey(session, "stopped_at", t), "duration", Len(session.data))

\* stop_recording opening recordings/<id>.json for writing before it looks
\* the id up: an unknown id leaves an empty file behind.
stop_recording_open_first(recording_id, writeOk) ==
    /\ IF recording_id \in DOMAIN call_recordings
       THEN \E t \in {u \in 0..MaxClock : Now(u)} :
            /\ clock' = t
            /\ call_recordings' =
                   SetKey(call_recordings, recording_id,
                          stopped_session(call_recordings[recording_id], t))
            /\ IF writeOk
               THEN /\ recFiles' = SetKey(recFiles, recording_id,
                                          call_recordings'[recording_id])
                    /\ resp' = [op |-> "stop_recording", status |-> 200,
                                recording_id |-> recording_id,
                                message |-> "Recording saved"]
               ELSE /\ UNCHANGED recFiles
                    /\ resp' = [op |-> "stop_recording", status |-> 400,
                                recording_id |-> recording_id, error |-> "OSError"]
       ELSE /\ resp' = [op |-> "stop_recording", status |-> 404,
                        recording_id |-> recording_id,
                        error |-> "Recording not found"]
            /\ recFiles' = IF writeOk THEN SetKey(recFiles, recording_id, <<>>)
                           ELSE recFiles
            /\ UNCHANGED <<call_recordings, clock>>
    /\ UNCHANGED <<emergency_calls, logFile, cacheFile, nSuccess, nInserted, pc, loc>>

\* POST /api/recording/stop/<recording_id>. writeOk: open/json.dump of
\* recordings/<id>.json does not raise.
stop_recording(recording_id, writeOk) ==
    /\ IF recording_id \in DOMAIN call_recordings
       THEN \E t \in {u \in 0..MaxClock : Now(u)} :
            /\ clock' = t
            /\ call_recordings' =
                   SetKey(call_recordings, recording_id,
                          stopped_session(call_recordings[recording_id], t))
            /\ IF writeOk
               THEN /\ recFiles' = SetKey(recFiles, recording_id,
                                          call_recordings'[recording_id])
                    /\ resp' = [op |-> "stop_recording", status |-> 200,
                                recording_id |-> recording_id,
                                message |-> "Recording saved"]
               ELSE /\ UNCHANGED recFiles
                    /\ resp' = [op |-> "stop_recording", status |-> 400,
                                recording_id |-> recording_id, error |-> "OSError"]
       ELSE /\ resp' = [op |-> "stop_recording", status |-> 404,
                        recording_id |-> recording_id,
                        error |-> "Recording not found"]
            /\ UNCHANGED <<call_recordings, recFiles, clock>>
    /\ UNCHANGED <<emergency_calls, logFile, cacheFile, nSuccess, nInserted, pc, loc>>

\* ------------------------------------------------------ geolocation resolver
Abs(n) == IF n < 0 THEN -n ELSE n

\* get_distance for two points of one meridian (lon1 = lon2), where the
\* Haversine formula gives a = sin^2(dlat/2), c = |dlat| and so r * |dlat|.
\* The result is in metres. A coordinate that is no number raises TypeError
\* in map(radians, ...): callers test IsNumber first.
get_distance(lat1, lon1, lat2, lon2) == MetresPerStep * Abs(lat2.v - lat1.v)

\* Whether get_distance(latitude, longitude, entry...) raises TypeError.
Raises(entry, latitude, longitude) ==
    ~(/\ IsNumber(latitude) /\ IsNumber(longitude)
      /\ IsNumber(entry.latitude) /\ IsNumber(entry.longitude))

\* The for loop of _check_cache: it ends at the first entry, in file order,
\* where get_distance raises (then "except: pass" gives None) or where the
\* distance is below the threshold (that entry is returned, as <<entry>>).
ScanCache(cache, latitude, longitude) ==
    LET stops == {i \in 1..Len(cache) :
                    \/ Raises(cache[i], latitude, longitude)
                    \/ get_distance(latitude, longitude, cache[i].latitude,
                                    cache[i].longitude) < NearMetres}
    IN  IF stops = {} THEN None
        ELSE LET first == CHOOSE i \in stops : \A j \in stops : i <= j
             IN  IF Raises(cache[first], latitude, longitude) THEN None
                 ELSE <<cache[first]>>

\* _check_cache: no file, or a file json.load or the loop rejects, gives None.
_check_cache(file, latitude, longitude) ==
    IF file.state # "list" THEN None
    ELSE ScanCache(file.entries, latitude, longitude)

\* cache[:100] in place of cache[-100:]: the newest entries are dropped.
FirstEntries(cache) ==
    IF Len(cache) > CacheMax THEN SubSeq(cache, 1, CacheMax) ELSE cache

\* cache[-100:]
LastEntries(cache) ==
    IF Len(cache) > CacheMax
    THEN SubSeq(cache, Len(cache) - CacheMax + 1, Len(cache))
    ELSE cache

\* The list dumped when the list read from the file is forgotten.
OnlyNewest(cache, result) == <<result>>

\* geolocation.py:130-132: the list that is dumped.
NewCache(cache, result) == LastEntries(Append(cache, result))

\* geolocation.py:125-128: the list read, [] when there is no file.
ReadCache(file) == IF file.state = "missing" THEN <<>> ELSE file.entries

\* _cache_location: the cache file after the call. A file that does not parse
\* as a list, or an open for writing that raises, leaves the file as it was.
_cache_location(file, result, writeOk) ==
    IF file.state = "malformed" \/ ~writeOk THEN file
    ELSE [state |-> "list", entries |-> NewCache(ReadCache(file), result)]

\* str() of a coordinate inside the f-string of line 70.
CoordText(c) == IF IsNumber(c) THEN ToString(c.v) ELSE "x"

\* geolocation.py:49-58
location_data(latitude, longitude, data, t) ==
    [latitude |-> latitude, longitude |-> longitude,
     address |-> Get(data, "address", "{}"),
     display_name |-> Get(data, "display_name", "Unknown Location"),
     osm_id |-> Get(data, "osm_id", "None"),
     osm_type |-> Get(data, "osm_type", "None"),
     accuracy |-> "High (GPS)",
     timestamp |-> t]

\* The except branch of RequestException answering as the generic one does.
request_error_as_offline(latitude, longitude) ==
    [latitude |-> latitude, longitude |-> longitude,
     error |-> "Geolocation error: RequestException",
     display_name |-> "Offline Mode",
     offline |-> TRUE]

\* geolocation.py:65-72
request_error(latitude, longitude) ==
    [latitude |-> latitude, longitude |-> longitude,
     error |-> "RequestException",
     display_name |-> "Location (" \o CoordText(latitude) \o ", "
                        \o CoordText(longitude) \o ")",
     accuracy |-> "High"]

\* geolocation.py:73-80
offline_error(latitude, longitude) ==
    [latitude |-> latitude, longitude |-> longitude,
     error |-> "Geolocation error: Exception",
     display_name |-> "Offline Mode",
     offline |-> TRUE]

\* What the reverse-geocoding request does: a JSON object comes back; or
\* requests raises a RequestException (connection, timeout, raise_for_status);
\* or another exception is raised on the way to location_data (the body is
\* JSON but no object, so data.get raises).
ServiceData == {[display_name |-> "Main St", address |-> "addr",
                 osm_id |-> "1", osm_type |-> "way"],
                [osm_id |-> "2"]}
ServiceOutcomes ==
    {[kind |-> "ok", data |-> d] : d \in ServiceData}
        \cup {[kind |-> "RequestException", data |-> <<>>],
              [kind |-> "Exception", data |-> <<>>]}

\* Whether _cache_location gets as far as json.dump.
Dumps(file, writeOk) == file.state # "malformed" /\ writeOk

\* get_location with the two except branches also caching what they return.
get_location_caching_errors(file, latitude, longitude, svc, t, writeOk) ==
    LET cached == _check_cache(file, latitude, longitude)
        result == IF svc.kind = "RequestException"
                  THEN request_error(latitude, longitude)
                  ELSE IF svc.kind = "Exception"
                  THEN offline_error(latitude, longitude)
                  ELSE location_data(latitude, longitude, svc.data, t)
    IN  IF cached # None
        THEN [location |-> cached[1], file |-> file, service |-> "not_called",
              wrote |-> FALSE]
        ELSE [location |-> result,
              file |-> _cache_location(file, result, writeOk),
              service |-> svc.kind, wrote |-> Dumps(file, writeOk)]

\* get_location: the dictionary returned, the cache file afterwards, whether
\* the service was asked and whether the result was dumped to the file.
get_location(file, latitude, longitude, svc, t, writeOk) ==
    LET cached == _check_cache(file, latitude, longitude) IN
    IF cached # None
    THEN [location |-> cached[1], file |-> file, service |-> "not_called",
          wrote |-> FALSE]
    ELSE IF svc.kind = "RequestException"
    THEN [location |-> request_error(latitude, longitude), file |-> file,
          service |-> svc.kind, wrote |-> FALSE]
    ELSE IF svc.kind = "Exception"
    THEN [location |-> offline_error(latitude, longitude), file |-> file,
          service |-> svc.kind, wrote |-> FALSE]
    ELSE LET result == location_data(latitude, longitude, svc.data, t) IN
         [location |-> result,
          file |-> _cache_location(file, result, writeOk),
          service |-> svc.kind, wrote |-> Dumps(file, writeOk)]

\* The coordinates a request body can carry.
Coords == {Num(k) : k \in 0..MaxLat} \cup {NotNum}

\* POST /api/location. isObject: request.json is a JSON object; t: what
\* _get_timestamp reads.
get_caller_location(isObject, lat, lng, svc, t, writeOk) ==
    /\ IF ~isObject
       THEN /\ resp' = [op |-> "get_caller_location", status |-> 400,
                        error |-> "AttributeError"]
            /\ UNCHANGED <<cacheFile, clock, nInserted>>
       ELSE \E r \in {get_location(cacheFile, lat, lng, svc, t, writeOk)} :
            /\ resp' = [op |-> "get_caller_location", status |-> 200,
                        latitude |-> lat, longitude |-> lng,
                        location |-> r.location, service |-> r.service]
            /\ cacheFile' = r.file
            /\ clock' = IF r.service = "ok" THEN t ELSE clock
            /\ nInserted' = IF r.wrote THEN nInserted + 1 ELSE nInserted
            /\ nInserted' <= MaxInserts
    /\ UNCHANGED <<emergency_calls, call_recordings, logFile, recFiles, nSuccess,
                   pc, loc>>

\* ------------------------------------------------------------ initial state
\* location_cache.json outlives the process: at start it is absent, or does
\* not parse, or holds what earlier runs cached (at most CacheMax entries, any
\* of them cached for a request whose coordinates were JSON strings).
OldEntry(k) == location_data(Num(1000 + k), Num(0), [osm_id |-> "0"], -1)
OldCache(n) == [k \in 1..n |-> OldEntry(k)]
OldTextEntry == location_data(NotNum, NotNum, [osm_id |-> "0"], -1)
SmallCaches ==
    {[state |-> "missing", entries |-> <<>>],
     [state |-> "malformed", entries |-> <<>>],
     [state |-> "list", entries |-> <<>>],
     [state |-> "list", entries |-> OldCache(1)],
     [state |-> "list", entries |-> <<OldTextEntry>>]}
FullCaches ==
    {[state |-> "list", entries |-> OldCache(CacheMax - 1)],
     [state |-> "list", entries |-> OldCache(CacheMax)]}

Idle == [op |-> "idle"]

InitWith(caches) ==
    /\ emergency_calls = <<>>
    /\ call_recordings = <<>>
    /\ logFile = <<>>
    /\ recFiles = <<>>
    /\ cacheFile \in caches
    /\ clock = 0
    /\ resp = [op |-> "none", status |-> 0]
    /\ nSuccess = 0
    /\ nInserted = 0
    /\ pc = [t \in Threads |-> "idle"]
    /\ loc = [t \in Threads |-> Idle]

Init == InitWith(SmallCaches \cup FullCaches)

SubmitCall ==
    \E isObject \in BOOLEAN, data \in CallBodies, logOk \in BOOLEAN :
        emergency_call(isObject, data, logOk)

\* What the environment does to one get_location call: the service's outcome,
\* the time read for the result and whether the cache file can be written
\* (both matter only after an "ok").
Environments ==
    {e \in [svc : ServiceOutcomes, t : 0..MaxClock, writeOk : BOOLEAN] :
        /\ Now(e.t)
        /\ e.svc.kind # "ok" => (e.writeOk /\ e.t = clock)}

NoObject == [kind |-> "Exception", data |-> <<>>]

ResolveLocation ==
    \/ get_caller_location(FALSE, NotNum, NotNum, NoObject, clock, TRUE)
    \/ \E lat \in Coords, e \in Environments :
        get_caller_location(TRUE, lat, Num(0), e.svc, e.t, e.writeOk)

\* The same requests with fewer coordinates, for the runs on a full cache.
FullCoords == {Num(0), NotNum}
ResolveLocationFull ==
    \/ get_caller_location(FALSE, NotNum, NotNum, NoObject, clock, TRUE)
    \/ \E lat \in FullCoords, e \in Environments :
        get_caller_location(TRUE, lat, Num(0), e.svc, e.t, e.writeOk)

StopRecording ==
    \E recording_id \in RecIds, writeOk \in BOOLEAN :
        stop_recording(recording_id, writeOk)

Next ==
    \/ SubmitCall
    \/ get_calls
    \/ health_check
    \/ ResolveLocation
    \/ start_recording
    \/ StopRecording

Spec == Init /\ [][Next]_vars

\* The three components share no variable but the clock: each is also run
\* alone, where larger bounds are affordable.
InitSmall == InitWith(SmallCaches)

NextCalls == SubmitCall \/ get_calls \/ health_check
SpecCalls == InitSmall /\ [][NextCalls]_vars

NextRecording == start_recording \/ StopRecording
SpecRecording == InitSmall /\ [][NextRecording]_vars

NextLocation == ResolveLocation
SpecLocation == InitSmall /\ [][NextLocation]_vars

\* The resolver started on a cache file that is full or one entry short.
InitFull == InitWith(FullCaches)
NextFullCache == ResolveLocationFull
SpecFullCache == InitFull /\ [][NextFullCache]_vars

\* ------------------------------------------------------ concurrent handlers
\* Each thread serves one request. A handler is cut where another thread can
\* run between two of its accesses to the shared list or the shared file.
SetLoc(t, r) == [loc EXCEPT ![t] = r]
Goto(t, label) == [pc EXCEPT ![t] = label]
SharedFrame == <<call_recordings, recFiles, resp, nSuccess, nInserted>>

\* app.py:26-40: caller_info is built and appended; index is where it went.
ec_append(t, data, tm) ==
    /\ pc[t] = "idle"
    /\ emergency_calls' = Append(emergency_calls, caller_info(data, tm))
    /\ loc' = SetLoc(t, [op |-> "emergency_call", info |-> caller_info(data, tm),
                         index |-> Len(emergency_calls)])
    /\ pc' = Goto(t, "ec_write")
    /\ clock' = tm
    /\ UNCHANGED <<logFile, cacheFile>>
    /\ UNCHANGED SharedFrame

\* app.py:43-44, and 51-52 when the write raises.
ec_write(t, logOk) ==
    /\ pc[t] = "ec_write"
    /\ IF logOk
       THEN /\ logFile' = Append(logFile, loc[t].info)
            /\ pc' = Goto(t, "ec_return")
            /\ UNCHANGED loc
       ELSE /\ loc' = SetLoc(t, SetKey(loc[t], "response",
                                       [status |-> 400, error |-> "OSError"]))
            /\ pc' = Goto(t, "done")
            /\ UNCHANGED logFile
    /\ UNCHANGED <<emergency_calls, cacheFile, clock>>
    /\ UNCHANGED SharedFrame

\* app.py:46-50: the length of the list is read now.
ec_return(t) ==
    /\ pc[t] = "ec_return"
    /\ loc' = SetLoc(t, SetKey(loc[t], "response",
                               [status |-> 200,
                                call_id |-> Len(emergency_calls) - 1]))
    /\ pc' = Goto(t, "done")
    /\ UNCHANGED <<emergency_calls, logFile, cacheFile, clock>>
    /\ UNCHANGED SharedFrame

\* geolocation.py:26-28: the cache file is read; a file another thread has
\* open for writing does not parse.
gl_check(t, lat, lng) ==
    /\ pc[t] = "idle"
    /\ \E cached \in {_check_cache(cacheFile, lat, lng)} :
        IF cached # None
        THEN /\ loc' = SetLoc(t, [op |-> "get_location", latitude |-> lat,
                                  longitude |-> lng, location |-> cached[1],
                                  service |-> "not_called", wrote |-> FALSE,
                                  stale |-> FALSE])
             /\ pc' = Goto(t, "done")
        ELSE /\ loc' = SetLoc(t, [op |-> "get_location", latitude |-> lat,
                                  longitude |-> lng])
             /\ pc' = Goto(t, "gl_request")
    /\ UNCHANGED <<emergency_calls, logFile, cacheFile, clock>>
    /\ UNCHANGED SharedFrame

\* geolocation.py:30-58 and 65-80: the request, and location_data from its answer.
gl_request(t, svc, tm) ==
    /\ pc[t] = "gl_request"
    /\ IF svc.kind = "ok"
       THEN /\ loc' = SetLoc(t, [op |-> "get_location",
                                 latitude |-> loc[t].latitude,
                                 longitude |-> loc[t].longitude,
                                 location |-> location_data(loc[t].latitude,
                                                 loc[t].longitude, svc.data, tm),
                                 service |-> "ok", wrote |-> FALSE,
                                 stale |-> FALSE])
            /\ clock' = tm
            /\ pc' = Goto(t, "cl_read")
       ELSE /\ loc' = SetLoc(t, [op |-> "get_location",
                                 latitude |-> loc[t].latitude,
                                 longitude |-> loc[t].longitude,
                                 location |->
                                     IF svc.kind = "RequestException"
                                     THEN request_error(loc[t].latitude,
                                                        loc[t].longitude)
                                     ELSE offline_error(loc[t].latitude,
                                                        loc[t].longitude),
                                 service |-> svc.kind, wrote |-> FALSE,
                                 stale |-> FALSE])
            /\ UNCHANGED clock
            /\ pc' = Goto(t, "done")
    /\ UNCHANGED <<emergency_calls, logFile, cacheFile>>
    /\ UNCHANGED SharedFrame

\* geolocation.py:125-128: the file is read into the local list; a file that
\* does not parse ends _cache_location in "except: pass".
cl_read(t) ==
    /\ pc[t] = "cl_read"
    /\ IF cacheFile.state = "malformed"
       THEN /\ pc' = Goto(t, "done")
            /\ UNCHANGED loc
       ELSE /\ loc' = SetLoc(t, SetKey(SetKey(loc[t], "cache", ReadCache(cacheFile)),
                                       "fileRead", cacheFile))
            /\ pc' = Goto(t, "cl_open")
    /\ UNCHANGED <<emergency_calls, logFile, cacheFile, clock>>
    /\ UNCHANGED SharedFrame

\* geolocation.py:130-134: the result is appended to the local list and the
\* file is opened for writing, which empties it. stale records whether the
\* file is no longer the one this thread read.
cl_open(t, writeOk) ==
    /\ pc[t] = "cl_open"
    /\ IF writeOk
       THEN /\ loc' = SetLoc(t, [loc[t] EXCEPT
                                    !.cache = NewCache(@, loc[t].location),
                                    !.stale = (cacheFile # loc[t].fileRead)])
            /\ cacheFile' = [state |-> "malformed", entries |-> <<>>]
            /\ pc' = Goto(t, "cl_dump")
       ELSE /\ pc' = Goto(t, "done")
            /\ UNCHANGED <<loc, cacheFile>>
    /\ UNCHANGED <<emergency_calls, logFile, clock>>
    /\ UNCHANGED SharedFrame

\* geolocation.py:135: the local list is dumped. While another thread also
\* has the file open for writing the two dumps can mix into a file that
\* does not parse (torn).
cl_dump(t, torn) ==
    /\ pc[t] = "cl_dump"
    /\ torn => \E u \in Threads \ {t} : pc[u] = "cl_dump"
    /\ cacheFile' = IF torn THEN [state |-> "malformed", entries |-> <<>>]
                    ELSE [state |-> "list", entries |-> loc[t].cache]
    /\ loc' = SetLoc(t, [loc[t] EXCEPT !.wrote = TRUE])
    /\ pc' = Goto(t, "done")
    /\ UNCHANGED <<emergency_calls, logFile, clock>>
    /\ UNCHANGED SharedFrame

\* The inputs of the concurrent runs: two points 100 m or more apart, one
\* request body, one answer of the service or its failure.
ConcCoords == {Num(0), Num(MaxLat)}
ConcOutcomes == {[kind |-> "ok", data |-> [display_name |-> "Main St"]],
                 [kind |-> "RequestException", data |-> <<>>]}

NextConc ==
    \E t \in Threads :
        \/ \E tm \in {u \in 0..MaxClock : Now(u)} : ec_append(t, FullBody, tm)
        \/ \E logOk \in BOOLEAN : ec_write(t, logOk)
        \/ ec_return(t)
        \/ \E lat \in ConcCoords : gl_check(t, lat, Num(0))
        \/ \E svc \in ConcOutcomes : gl_request(t, svc, clock)
        \/ cl_read(t)
        \/ \E writeOk \in BOOLEAN : cl_open(t, writeOk)
        \/ \E torn \in BOOLEAN : cl_dump(t, torn)

InitConc == InitWith({[state |-> "missing", entries |-> <<>>],
                      [state |-> "list", entries |-> <<>>]})
SpecConc == InitConc /\ [][NextConc]_vars

\* ------------------------------------------------------------------- claims
IsSubmit(r) == r.op = "emergency_call"
IsList(r) == r.op = "get_calls"
IsStop(r) == r.op = "stop_recording"
IsResolve(r) == r.op = "get_caller_location"

\* C1: a submit-call answered 200 returns as call_id the number of submit-call
\* requests answered 200 before it, also after requests that were answered
\* 400 because the append to the log file raised.
C1_CallIdCountsSuccesses ==
    (IsSubmit(resp) /\ resp.status = 200) => resp.call_id = nSuccess - 1

\* C2: list-calls returns total equal to the length of calls, and equal to the
\* number of submit-call requests answered 200 so far.
C2_TotalCountsSuccesses ==
    IsList(resp) => (resp.total = Len(resp.calls) /\ resp.total = nSuccess)

\* The entries of a cache file, none when there is no file.
Entries(file) == IF file.state = "list" THEN file.entries ELSE <<>>

\* new is old with e put at the end and, if that made more than CacheMax
\* entries, without its first entry: the others keep their places in order.
FifoInsert(old, new, e) ==
    /\ Len(new) > 0
    /\ new[Len(new)] = e
    /\ IF Len(old) < CacheMax
       THEN /\ Len(new) = Len(old) + 1
            /\ \A i \in 1..Len(old) : new[i] = old[i]
       ELSE /\ Len(new) = CacheMax
            /\ \A i \in 1..(CacheMax - 1) : new[i] = old[i + 1]

\* C3: the cache file never holds more than 100 entries, and every result
\* dumped to it goes to the end; when that would make 101 entries exactly the
\* oldest one is dropped and the others keep their order.
C3_CacheBoundedFifo ==
    /\ [](Len(Entries(cacheFile)) <= CacheMax)
    /\ [][nInserted' # nInserted =>
            /\ cacheFile'.state = "list"
            /\ FifoInsert(Entries(cacheFile), cacheFile'.entries, resp'.location)
         ]_vars

\* An insertion into a full cache has dropped the oldest entry.
C3_Evicted ==
    /\ nInserted > 0
    /\ cacheFile.state = "list"
    /\ Len(cacheFile.entries) = CacheMax
    /\ cacheFile.entries[1] # OldEntry(1)
    /\ cacheFile.entries[CacheMax] = resp.location

\* The entries of a cache file within 100 m of a point given by numbers.
NearIndexes(file, lat, lng) ==
    {i \in 1..Len(Entries(file)) :
        /\ IsNumber(lat) /\ IsNumber(lng)
        /\ IsNumber(file.entries[i].latitude)
        /\ IsNumber(file.entries[i].longitude)
        /\ get_distance(lat, lng, file.entries[i].latitude,
                        file.entries[i].longitude) < NearMetres}

\* C4: a resolve whose point is within 100 m of an entry of the cache file
\* returns such an entry as it is in the file and does not ask the service.
C4_NearQueryHitsCache ==
    [][(/\ IsResolve(resp') /\ resp'.status = 200
        /\ NearIndexes(cacheFile, resp'.latitude, resp'.longitude) # {})
       => /\ resp'.service = "not_called"
          /\ \E i \in NearIndexes(cacheFile, resp'.latitude, resp'.longitude) :
                resp'.location = cacheFile.entries[i]
      ]_vars

\* C5: stop-recording of an id that is no key of the recording map answers
\* 404 "Recording not found", creates no file and leaves the map unchanged;
\* no other stop answers 404.
C5_UnknownStop ==
    [][IsStop(resp') =>
        /\ resp'.recording_id \notin DOMAIN call_recordings =>
              /\ resp'.status = 404
              /\ resp'.error = "Recording not found"
              /\ call_recordings' = call_recordings
              /\ recFiles' = recFiles
        /\ resp'.status = 404 => resp'.recording_id \notin DOMAIN call_recordings
      ]_vars

\* An unknown id was stopped while sessions and files of other ids exist.
C5_UnknownStopped ==
    /\ IsStop(resp)
    /\ resp.status = 404
    /\ DOMAIN call_recordings # {}
    /\ DOMAIN recFiles # {}

SessionKeys == {"started_at", "data", "stopped_at", "duration"}

C8_CacheFrame ==
    /\ [](\A i \in 1..Len(Entries(cacheFile)) :
            /\ "error" \notin DOMAIN cacheFile.entries[i]
            /\ "offline" \notin DOMAIN cacheFile.entries[i])
    /\ [][(/\ IsResolve(resp')
           /\ \/ resp'.status # 200
              \/ resp'.service # "ok")
          => cacheFile' = cacheFile]_vars
    /\ [][cacheFile' # cacheFile =>
            /\ IsResolve(resp') /\ resp'.status = 200 /\ resp'.service = "ok"
            /\ cacheFile.state # "malformed"
            /\ cacheFile'.state = "list"
            /\ FifoInsert(Entries(cacheFile), cacheFile'.entries, resp'.location)
         ]_vars

\* A request failed after the cache had been filled, and the cache is intact.
C8_FailedOnFilledCache ==
    /\ IsResolve(resp)
    /\ resp.status = 200
    /\ "error" \in DOMAIN resp.location
    /\ nInserted > 0
    /\ Len(Entries(cacheFile)) >= 2

\* A thread whose emergency_call was answered 200.
Submitted(t) ==
    /\ pc[t] = "done"
    /\ loc[t].op = "emergency_call"
    /\ loc[t].response.status = 200

\* C9: with submit-call handlers running concurrently, the call_id of a
\* request answered 200 is the index at which its own record was appended,
\* so two such requests never get the same call_id.
C9_CallIdIsOwnIndex ==
    \A t \in Threads :
        Submitted(t) =>
            /\ loc[t].response.call_id = loc[t].index
            /\ \A u \in Threads \ {t} :
                  Submitted(u) => loc[u].response.call_id # loc[t].response.call_id

\* A thread whose get_location dumped its result to the cache file.
Wrote(t) ==
    /\ pc[t] = "done"
    /\ loc[t].op = "get_location"
    /\ loc[t].wrote

InFile(e) == \E i \in 1..Len(Entries(cacheFile)) : cacheFile.entries[i] = e

\* C10: when every cache update wrote the file it had read (the updates ran
\* one after the other) the file holds the result of each of them; the
\* interleaving in which it holds only one of two is C10_LostUpdate.
C10_SerialKeepsBoth ==
    (/\ cacheFile.state = "list"
     /\ \A t \in Threads : Wrote(t) => ~loc[t].stale)
    => \A t \in Threads : Wrote(t) => InFile(loc[t].location)

\* Two resolves both missed, both got a result and both dumped it, and the
\* file holds only the result of one of them.
C10_LostUpdate ==
    \E t, u \in Threads :
        /\ t # u
        /\ Wrote(t) /\ Wrote(u)
        /\ loc[t].location # loc[u].location
        /\ cacheFile.state = "list"
        /\ InFile(loc[u].location)
        /\ ~InFile(loc[t].location)

====
